---- MODULE Spec2Model ----
(***************************************************************************)
(* A model of the foxi / gocore xBase library: the data-file cursor        *)
(* (navigation, append, write, delete, pack), the transaction journal,     *)
(* the process-wide lock manager and the compound-index seek.              *)
(*                                                                         *)
(* Layout of the modelled data file: one character field of length 1, so   *)
(* a record is two bytes <<tombstone, field>>.  The file is the 32-byte    *)
(* header (record count and the bytes 28..31 that hold the code page),     *)
(* the field-descriptor area and the record array.                         *)
(***************************************************************************)
EXTENDS Integers, Sequences, FiniteSets, TLC

----------------------------------------------------------------------------
(* Program constants *)

ErrorNone == 0
ErrorMemory == -910
ErrorOpen == -920
ErrorWrite == -940
ErrorRead == -930
ErrorClose == -960
ErrorData == -980
R4Success == 0
R4Found == 1
R4After == 2
R4Eof == 3

\* ' ' and '*': the two tombstone bytes; 0x0D: the header terminator
Space == 32
Star == 42
HeaderTerminator == 13

----------------------------------------------------------------------------
(* Bounds of the model *)

\* appends are refused by the model once the in-memory count reaches this
MaxRecs == 2
\* journaling operations are refused once the journal holds this many entries
MaxLog == 2
\* the wall clock read by Code4TransInit stops the model at this tick
MaxClock == 2

\* records in a table that is searched through its index
MaxSeekRecs == 3

\* keys per leaf block of the index tree
LeafCap == 2

\* layout of the modelled table: one character field of width 1
HeaderLen == 65
RecordLen == 2

----------------------------------------------------------------------------
(* Value spaces *)

Cursors == {1, 2}
Files == {1, 2}

\* bytes a caller assigns to the character field
FieldVals == {66}

RecordBlank == <<Space, Space>>
ZeroRecord == <<0, 0>>

\* the records a well-formed file holds when it is opened
InitRecords == {<<Space, 67>>, <<Star, 65>>}

Nil == <<>>

\* the records of a table that is searched through its index
SeekRecords == {<<Space, 65>>, <<Space, 67>>, <<Star, 66>>}

\* the strings a caller seeks
SeekValues == {<<65>>, <<66>>, <<67>>, <<68>>, <<65, Space>>}

\* header byte 29 of a table written by Visual FoxPro: the mark of code page 1252
CodePages == {3}

VARIABLES
    data,     \* Data4 per cursor: position, flags, buffers, in-memory header
    disk,     \* the bytes of each data file
    cb,       \* the Code4 environment: transaction level, id, journal, file list
    index,    \* the production index: tag header and the blocks of its tree
    now,      \* the wall clock read by Code4TransInit
    begun,    \* the data files as they were when the open transaction began
    locks,    \* the lock manager's registry: key -> FileLock
    oslock,   \* the advisory lock of each file: the cursor whose descriptor holds it
    held,     \* per cursor, the keys it locked and has not given up since
    lpc,      \* per cursor, the progress of a D4LockAll or D4UnlockAll call
    walk,     \* the records a tag traversal has visited since its First
    impl,     \* the facade object: its cursor, field collection and index view
    last      \* the operation that ran last, its cursor and its return code

vars == <<data, disk, cb, index, now, begun, locks, oslock, held, lpc, walk, impl, last>>

----------------------------------------------------------------------------
(* The machine state threaded through the library functions *)

M == [data |-> data, disk |-> disk, cb |-> cb, index |-> index, now |-> now,
      rc |-> ErrorNone]

SetRc(m, rc) == [m EXCEPT !.rc = rc]

FileOf(m, d) == m.disk[m.data[d].file]

\* the bytes of header-area slot r <= 0 (what a record write at r overwrites)
HeaderArea == [r \in {-1, 0} |-> IF r = 0 THEN <<0, HeaderTerminator>> ELSE ZeroRecord]

\* recs with record r (r >= 1) set to rec; a hole before r is zero-filled
WriteAt(recs, r, rec) ==
    [i \in 1..(IF r > Len(recs) THEN r ELSE Len(recs)) |->
        IF i = r THEN rec ELSE IF i <= Len(recs) THEN recs[i] ELSE ZeroRecord]

\* File4Write of the 32 header bytes: count from memory, bytes 28..31 zero
writeDbfHeader(f, numRecs) == [f EXCEPT !.numRecs = numRecs, !.tail = 0]

File4Truncate(f, n) ==
    [f EXCEPT !.recs = [i \in 1..n |-> IF i <= Len(f.recs) THEN f.recs[i] ELSE ZeroRecord]]

----------------------------------------------------------------------------
(* Navigation: data4.go *)

\* a goto that moves the position before it tests the target
GoUnchecked(m, d, recordNum) ==
    LET f == FileOf(m, d)
        m1 == [m EXCEPT !.data[d].recNo = recordNum,
                        !.data[d].atEof = FALSE,
                        !.data[d].atBof = (recordNum = 1)]
    IN  IF recordNum < 1 \/ recordNum > m.data[d].NumRecs THEN SetRc(m1, ErrorData)
        ELSE IF recordNum > Len(f.recs) THEN SetRc(m1, ErrorRead)
        ELSE [m1 EXCEPT !.data[d].RecordOld = m.data[d].Record,
                        !.data[d].Record = f.recs[recordNum],
                        !.rc = ErrorNone]

D4Go(m, d, recordNum) ==
    LET x == m.data[d]
        f == FileOf(m, d)
        x1 == [x EXCEPT !.RecordOld = x.Record]
    IN  IF recordNum < 1 \/ recordNum > x.NumRecs
        THEN SetRc(m, ErrorData)
        ELSE IF recordNum > Len(f.recs)
        THEN [m EXCEPT !.data[d] = x1, !.rc = ErrorRead]
        ELSE [m EXCEPT !.data[d] = [x1 EXCEPT !.Record = f.recs[recordNum],
                                              !.recNo = recordNum,
                                              !.atEof = FALSE,
                                              !.atBof = (recordNum = 1)],
                       !.rc = ErrorNone]

EmptyPosition(m, d) ==
    [m EXCEPT !.data[d].atEof = TRUE, !.data[d].atBof = TRUE, !.data[d].recNo = 0,
              !.rc = ErrorNone]

D4Top(m, d) ==
    IF m.data[d].NumRecs = 0 THEN EmptyPosition(m, d) ELSE D4Go(m, d, 1)

D4Bottom(m, d) ==
    IF m.data[d].NumRecs = 0 THEN EmptyPosition(m, d) ELSE D4Go(m, d, m.data[d].NumRecs)

D4Skip(m, d, numRecs) ==
    LET x == m.data[d]
        newRecNo == x.recNo + numRecs
    IN  IF newRecNo < 1
        THEN [m EXCEPT !.data[d].atBof = TRUE, !.data[d].atEof = FALSE,
                       !.data[d].recNo = 0, !.rc = ErrorNone]
        ELSE IF newRecNo > x.NumRecs
        THEN [m EXCEPT !.data[d].atEof = TRUE, !.data[d].atBof = FALSE,
                       !.data[d].recNo = x.NumRecs + 1, !.rc = ErrorNone]
        ELSE D4Go(m, d, newRecNo)

\* D4Eof: the end-of-file flag the cursor reports
D4Eof(m, d) == m.data[d].atEof

\* a test of the deletion mark that never sees it
MarkUnseen(m, d) == FALSE

D4Deleted(m, d) == m.data[d].Record[1] = Star

D4Delete(m, d) == [m EXCEPT !.data[d].Record[1] = Star]

\* a recall that also writes the cleared mark to the file
RecallOnDisk(m, d) ==
    LET x == m.data[d]
        rec == [x.Record EXCEPT ![1] = Space]
    IN  IF x.recNo >= 1 /\ x.recNo <= Len(m.disk[x.file].recs)
        THEN [m EXCEPT !.data[d].Record = rec,
                       !.disk[x.file].recs = WriteAt(@, x.recNo, rec)]
        ELSE [m EXCEPT !.data[d].Record = rec]

D4Recall(m, d) == [m EXCEPT !.data[d].Record[1] = Space]

D4Blank(m, d) == [m EXCEPT !.data[d].Record = RecordBlank]

\* F4Assign on the character field: the cell is space-filled, then left-copied
F4Assign(m, d, v) == [m EXCEPT !.data[d].Record[2] = v, !.rc = ErrorNone]

----------------------------------------------------------------------------
(* Transaction journal: Code4Trans*, D4Trans* *)

Code4TransInit(m) ==
    [m EXCEPT !.cb.TransactionLevel = 1,
              !.cb.TransactionID = m.now,
              !.now = m.now + 1,
              !.rc = ErrorNone]

LogAppend(m, entry) ==
    IF m.cb.TransactionLevel = 0 THEN m
    ELSE [m EXCEPT !.cb.TransactionLog = Append(m.cb.TransactionLog, entry)]

D4TransAppend(m, d, recNo) ==
    LogAppend(m, [RecNo |-> recNo, OldRecord |-> Nil, Operation |-> 1, on |-> d])

D4TransUpdate(m, d, recNo, oldRecord) ==
    LogAppend(m, [RecNo |-> recNo, OldRecord |-> oldRecord, Operation |-> 2, on |-> d])

D4TransDelete(m, d, recNo) ==
    LogAppend(m, [RecNo |-> recNo, OldRecord |-> Nil, Operation |-> 3, on |-> d])

----------------------------------------------------------------------------
(* Writing: append, write, pack *)

\* an append start that positions past the last record and leaves the count
PositionPastLast(m, d) ==
    [m EXCEPT !.data[d].recNo = m.data[d].NumRecs + 1,
              !.data[d].atEof = FALSE,
              !.rc = ErrorNone]

D4AppendStart(m, d) ==
    LET newRecordNo == m.data[d].NumRecs + 1
        m1 == [m EXCEPT !.data[d].NumRecs = newRecordNo,
                        !.data[d].recNo = newRecordNo,
                        !.data[d].atEof = FALSE,
                        !.data[d].atBof = (newRecordNo = 1),
                        !.data[d].TransChanged = 1,
                        !.rc = ErrorNone]
    IN  IF m1.cb.TransactionLevel = 0 THEN Code4TransInit(m1) ELSE m1

D4Append(m, d) == D4Blank(D4AppendStart(m, d), d)

d4WriteLow(m, d, recordNo) ==
    LET x == m.data[d]
        f == FileOf(m, d)
        f1 == IF recordNo >= 1
              THEN [f EXCEPT !.recs = WriteAt(f.recs, recordNo, x.Record)]
              ELSE [f EXCEPT !.pre[recordNo] = x.Record]
        bump == recordNo > x.NumRecs
        f2 == IF bump THEN writeDbfHeader(f1, recordNo) ELSE f1
    IN  [m EXCEPT !.disk[x.file] = f2,
                  !.data[d].NumRecs = IF bump THEN recordNo ELSE x.NumRecs,
                  !.rc = ErrorNone]

D4Write(m, d) == d4WriteLow(m, d, m.data[d].recNo)

D4AppendTrans(m, d) ==
    LET m1 == D4Append(m, d)
    IN  D4TransAppend(m1, d, m1.data[d].recNo)

D4WriteTrans(m, d) ==
    LET m1 == D4TransUpdate(m, d, m.data[d].recNo, m.data[d].RecordOld)
        m2 == D4Write(m1, d)
    IN  [m2 EXCEPT !.data[d].RecordOld = m2.data[d].Record]

D4DeleteTrans(m, d) ==
    LET m1 == IF ~D4Deleted(m, d) THEN D4TransDelete(m, d, m.data[d].recNo) ELSE m
    IN  SetRc(D4Delete(m1, d), ErrorNone)

D4Flush(m, d) ==
    LET x == m.data[d]
    IN  IF x.recNo > 0 /\ x.recNo <= x.NumRecs THEN D4Write(m, d) ELSE SetRc(m, ErrorNone)

\* the scan of D4Pack from record i on, newCount live records already placed
RECURSIVE PackScan(_, _, _, _, _)
PackScan(m, d, i, originalCount, newCount) ==
    IF i > originalCount THEN [m |-> SetRc(m, ErrorNone), newCount |-> newCount]
    ELSE LET m1 == D4Go(m, d, i)
         IN  IF m1.rc # ErrorNone THEN [m |-> m1, newCount |-> newCount]
             ELSE IF D4Deleted(m1, d)
             THEN PackScan(m1, d, i + 1, originalCount, newCount)
             ELSE LET m2 == IF newCount + 1 # i THEN d4WriteLow(m1, d, newCount + 1) ELSE m1
                  IN  PackScan(m2, d, i + 1, originalCount, newCount + 1)

D4Pack(m, d) ==
    LET scan == PackScan(m, d, 1, m.data[d].NumRecs, 0)
        m1 == scan.m
        n == scan.newCount
        fid == m1.data[d].file
        m2 == [m1 EXCEPT !.data[d].NumRecs = n,
                         !.disk[fid] = writeDbfHeader(File4Truncate(m1.disk[fid], n), n)]
    IN  IF m1.rc # ErrorNone THEN m1
        ELSE IF n > 0 THEN SetRc(D4Top(m2, d), ErrorNone)
        ELSE EmptyPosition(m2, d)

----------------------------------------------------------------------------
(* Commit and rollback *)

\* the loop of Code4TransCommit over the data file list, from position i
RECURSIVE CommitWalk(_, _)
CommitWalk(m, i) ==
    IF i > Len(m.cb.DataFileList) THEN m
    ELSE LET d == m.cb.DataFileList[i]
             m1 == IF m.data[d].TransChanged # 0
                   THEN LET w == IF m.data[d].recNo > 0 THEN D4Write(m, d) ELSE m
                        IN  [w EXCEPT !.data[d].TransChanged = 0]
                   ELSE m
         IN  CommitWalk(m1, i + 1)

ClearJournal(m) ==
    [m EXCEPT !.cb.TransactionLog = <<>>,
              !.cb.TransactionLevel = 0,
              !.cb.TransactionID = 0,
              !.rc = ErrorNone]

Code4TransCommit(m) ==
    IF m.cb.TransactionLevel = 0 THEN SetRc(m, ErrorMemory)
    ELSE ClearJournal(CommitWalk(m, 1))

\* the data file the rollback loop applies an entry to: the first one of the
\* list (the inner loop breaks after the first non-nil entry)
RollbackTarget(m, trans) == m.cb.DataFileList[1]

UndoEntry(m, trans) ==
    IF m.cb.DataFileList = <<>> THEN m
    ELSE LET d == RollbackTarget(m, trans)
             x == m.data[d]
         IN  CASE trans.Operation = 1 ->
                    IF x.NumRecs >= trans.RecNo
                    THEN [m EXCEPT !.data[d].NumRecs = x.NumRecs - 1,
                                   !.disk[x.file] = writeDbfHeader(m.disk[x.file], x.NumRecs - 1)]
                    ELSE m
               [] trans.Operation = 2 ->
                    IF trans.OldRecord # Nil /\ trans.RecNo > 0
                    THEN LET m1 == D4Go(m, d, trans.RecNo)
                         IN  IF m1.rc = ErrorNone
                             THEN D4Write([m1 EXCEPT !.data[d].Record = trans.OldRecord], d)
                             ELSE m1
                    ELSE m
               [] trans.Operation = 3 ->
                    IF trans.RecNo > 0
                    THEN LET m1 == D4Go(m, d, trans.RecNo)
                         IN  IF m1.rc = ErrorNone THEN D4Write(D4Recall(m1, d), d) ELSE m1
                    ELSE m
               [] OTHER -> m

\* the journal replayed from entry i down to the oldest
RECURSIVE UndoFrom(_, _)
UndoFrom(m, i) ==
    IF i < 1 THEN m ELSE UndoFrom(UndoEntry(m, m.cb.TransactionLog[i]), i - 1)

Code4TransRollback(m) ==
    IF m.cb.TransactionLevel = 0 THEN SetRc(m, ErrorMemory)
    ELSE ClearJournal(UndoFrom(m, Len(m.cb.TransactionLog)))

----------------------------------------------------------------------------
(* Index keys: formatting and comparison *)

\* strings.Compare: byte-wise lexicographic order
RECURSIVE Compare(_, _)
Compare(a, b) ==
    IF a = <<>> /\ b = <<>> THEN 0
    ELSE IF a = <<>> THEN -1
    ELSE IF b = <<>> THEN 1
    ELSE IF Head(a) < Head(b) THEN -1
    ELSE IF Head(a) > Head(b) THEN 1
    ELSE Compare(Tail(a), Tail(b))

IsSpace(b) == b \in {9, 10, 11, 12, 13, Space}

RECURSIVE TrimLeft(_)
TrimLeft(s) == IF s # <<>> /\ IsSpace(Head(s)) THEN TrimLeft(Tail(s)) ELSE s

RECURSIVE TrimRight(_)
TrimRight(s) ==
    IF s # <<>> /\ IsSpace(s[Len(s)]) THEN TrimRight(SubSeq(s, 1, Len(s) - 1)) ELSE s

\* strings.TrimSpace
TrimSpace(s) == TrimRight(TrimLeft(s))

\* formatStringKey for an ascending tag: truncate to keyLen, pad with spaces
formatStringKey(value, keyLen) ==
    [i \in 1..keyLen |-> IF i <= Len(value) THEN value[i] ELSE Space]

\* evaluateField on the character field of the current record
evaluateField(m, d) == formatStringKey(<<m.data[d].Record[2]>>, m.index.KeyLen)

\* the key of a record as the tag's expression derives it
KeyOfRecord(rec, keyLen) == formatStringKey(<<rec[2]>>, keyLen)

----------------------------------------------------------------------------
(* B+ tree seek: b4Seek, b4SearchBlock, D4Seek *)

\* the binary search of b4SearchBlock over Keys[left..right] (0-based)
RECURSIVE BinSearch(_, _, _, _)
BinSearch(keys, seekValue, left, right) ==
    IF left > right THEN [keyIndex |-> left, found |-> FALSE]
    ELSE LET mid == (left + right) \div 2
             cmp == Compare(seekValue, TrimSpace(keys[mid + 1].KeyData))
         IN  IF cmp = 0 THEN [keyIndex |-> mid, found |-> TRUE]
             ELSE IF cmp < 0 THEN BinSearch(keys, seekValue, left, mid - 1)
             ELSE BinSearch(keys, seekValue, mid + 1, right)

b4SearchBlock(block, seekValue) ==
    IF Len(block.Keys) = 0 THEN [keyIndex |-> 0, found |-> FALSE]
    ELSE BinSearch(block.Keys, seekValue, 0, Len(block.Keys) - 1)

\* the descent of b4Seek from block currentBlock
RECURSIVE b4Descend(_, _, _)
b4Descend(idx, currentBlock, seekValue) ==
    IF currentBlock <= 0 THEN [rc |-> ErrorMemory, recNo |-> 0]
    ELSE IF currentBlock \notin DOMAIN idx.blocks THEN [rc |-> ErrorRead, recNo |-> 0]
    ELSE LET block == idx.blocks[currentBlock]
             s == b4SearchBlock(block, seekValue)
         IN  IF block.BlockType = 0
             THEN IF s.found
                  THEN [rc |-> R4Success, recNo |-> block.Keys[s.keyIndex + 1].RecNo]
                  ELSE IF s.keyIndex < Len(block.Keys)
                  THEN [rc |-> R4After, recNo |-> block.Keys[s.keyIndex + 1].RecNo]
                  ELSE [rc |-> R4Eof, recNo |-> 0]
             ELSE IF s.keyIndex < Len(block.Pointers)
                  THEN b4Descend(idx, block.Pointers[s.keyIndex + 1], seekValue)
                  ELSE [rc |-> R4Eof, recNo |-> 0]

b4Seek(idx, seekValue) ==
    IF idx.Root <= 0 THEN [rc |-> R4Eof, recNo |-> 0]
    ELSE b4Descend(idx, idx.Root, seekValue)

D4GoPosition(m, d, recNo) ==
    IF recNo <= 0 THEN SetRc(m, ErrorMemory) ELSE D4Go(m, d, recNo)

D4Seek(m, d, seekValue) ==
    IF m.data[d].TagSelected = 0 THEN SetRc(m, ErrorMemory)
    ELSE LET m0 == [m EXCEPT !.data[d].lastSeekFound = FALSE]
             r == b4Seek(m.index, seekValue)
         IN  CASE r.rc = R4Success \/ r.rc = R4Found ->
                    D4GoPosition([m0 EXCEPT !.data[d].lastSeekFound = TRUE], d, r.recNo)
               [] r.rc = R4After ->
                    IF r.recNo > 0 THEN D4GoPosition(m0, d, r.recNo) ELSE SetRc(m0, R4After)
               [] r.rc = R4Eof ->
                    [m0 EXCEPT !.data[d].atEOF = TRUE, !.rc = R4Eof]
               [] OTHER -> SetRc(m0, r.rc)

\* the result pureGoTag.SeekString reports for a D4Seek return code
SeekResultOf(rc) ==
    CASE rc = R4Success -> "SeekSuccess"
      [] rc = R4After -> "SeekAfter"
      [] rc = R4Eof -> "SeekEOF"
      [] OTHER -> "error"

----------------------------------------------------------------------------
(* Reindex *)

\* the record walk of t4reindexBuild: every record is visited with D4Go;
\* n counts the keys collected
RECURSIVE ReindexScan(_, _, _, _)
ReindexScan(m, d, recNo, n) ==
    IF recNo > m.data[d].NumRecs THEN [m |-> m, n |-> n]
    ELSE LET m1 == D4Go(m, d, recNo)
         IN  ReindexScan(m1, d, recNo + 1, IF m1.rc = ErrorNone THEN n + 1 ELSE n)

\* I4Reindex: the tree blocks are not rewritten, only the tag header changes
I4Reindex(m, d) ==
    LET scan == ReindexScan(m, d, 1, 0)
        m1 == scan.m
        root == IF scan.n > 0 THEN 512 ELSE 1
    IN  [m1 EXCEPT !.index.Root = root,
                   !.data[d].recNo = -1,
                   !.data[d].atBof = TRUE,
                   !.data[d].atEOF = FALSE,
                   !.rc = ErrorNone]

----------------------------------------------------------------------------
(* The index file of a table: sorted keys chunked into leaves under one root *)

KeyLess(a, b) ==
    \/ Compare(a.KeyData, b.KeyData) < 0
    \/ Compare(a.KeyData, b.KeyData) = 0 /\ a.RecNo < b.RecNo

RECURSIVE t4sortKeys(_)
t4sortKeys(S) ==
    IF S = {} THEN <<>>
    ELSE LET lo == CHOOSE k \in S : \A o \in S \ {k} : KeyLess(k, o)
         IN  <<lo>> \o t4sortKeys(S \ {lo})

\* one key per record, as t4reindexBuild collects them
KeysOfFile(recs, keyLen) ==
    t4sortKeys({[KeyData |-> KeyOfRecord(recs[i], keyLen), RecNo |-> i] : i \in 1..Len(recs)})

Min(a, b) == IF a < b THEN a ELSE b

NumLeaves(n) == (n + LeafCap - 1) \div LeafCap

LeafKeys(keys, j) == SubSeq(keys, (j - 1) * LeafCap + 1, Min(j * LeafCap, Len(keys)))

LeafBlock(keys) == [BlockType |-> 0, Keys |-> keys, Pointers |-> <<>>]

\* a branch over leaves 2..n+1; a separator is the first key of the right child
t4buildBranchLevels(keys, n) ==
    [BlockType |-> 1,
     Keys |-> [j \in 1..(n - 1) |-> [KeyData |-> LeafKeys(keys, j + 1)[1].KeyData, RecNo |-> 0]],
     Pointers |-> [j \in 1..n |-> j + 1]]

t4buildTreeComplete(keys, keyLen) ==
    LET n == NumLeaves(Len(keys))
    IN  IF n = 0 THEN [Root |-> 1, KeyLen |-> keyLen, blocks |-> (1 :> LeafBlock(<<>>))]
        ELSE IF n = 1 THEN [Root |-> 1, KeyLen |-> keyLen, blocks |-> (1 :> LeafBlock(keys))]
        ELSE [Root |-> 1, KeyLen |-> keyLen,
              blocks |-> [b \in 1..(n + 1) |->
                            IF b = 1 THEN t4buildBranchLevels(keys, n)
                            ELSE LeafBlock(LeafKeys(keys, b - 1))]]

----------------------------------------------------------------------------
(* Lock manager: registry entries over the advisory lock of each file *)

DataName == "dbf"
IndexName == "cdx"
FileNames == {DataName, IndexName}

\* string(rune(n)): a value that is no Unicode code point becomes U+FFFD
Rune(n) == IF n < 0 \/ n > 1114111 \/ (n >= 55296 /\ n <= 57343) THEN 65533 ELSE n

\* the registry key of a file lock and of a range lock
FileKey(name) == <<name>>
RangeKey(name, startPos) == <<name, Rune(startPos)>>

\* the offset of record recNo in the data file
StartPos(recNo) == HeaderLen + (recNo - 1) * RecordLen

\* the File4 of cursor c on the file called name
Handle(c, name) == [owner |-> c, Name |-> name]

\* the lock manager state threaded through its methods
L == [locks |-> locks, oslock |-> oslock, rc |-> ErrorNone]

\* syscall.Flock(fd, LOCK_EX|LOCK_NB) succeeds unless another descriptor holds the lock
FlockFree(l, file) == l.oslock[file.Name] \in {0, file.owner}

\* syscall.Flock(fd, LOCK_UN) drops the lock of this descriptor only
FlockUn(os, file) ==
    IF os[file.Name] = file.owner THEN [os EXCEPT ![file.Name] = 0] ELSE os

Acquire(l, file, key, lockType, startPos) ==
    IF key \in DOMAIN l.locks THEN [l EXCEPT !.rc = ErrorData]
    ELSE IF ~FlockFree(l, file) THEN [l EXCEPT !.rc = ErrorOpen]
    ELSE [locks |-> [k \in DOMAIN l.locks \cup {key} |->
                        IF k = key
                        THEN [File |-> file, LockType |-> lockType, StartPos |-> startPos]
                        ELSE l.locks[k]],
          oslock |-> [l.oslock EXCEPT ![file.Name] = file.owner],
          rc |-> ErrorNone]

Release(l, file, key) ==
    IF key \notin DOMAIN l.locks THEN [l EXCEPT !.rc = ErrorData]
    ELSE [locks |-> [k \in DOMAIN l.locks \ {key} |-> l.locks[k]],
          oslock |-> FlockUn(l.oslock, file),
          rc |-> ErrorNone]

LockFile(l, file) == Acquire(l, file, FileKey(file.Name), 1, 0)

UnlockFile(l, file) == Release(l, file, FileKey(file.Name))

LockRange(l, file, startPos) == Acquire(l, file, RangeKey(file.Name, startPos), 2, startPos)

UnlockRange(l, file, startPos) == Release(l, file, RangeKey(file.Name, startPos))

CleanupLocks(l, file) ==
    [locks |-> [k \in {j \in DOMAIN l.locks : l.locks[j].File # file} |-> l.locks[k]],
     oslock |-> FlockUn(l.oslock, file),
     rc |-> ErrorNone]

\* no D4LockAll or D4UnlockAll call in progress
Idle == [pc |-> "idle", call |-> "none", ret |-> ErrorNone]

\* no traversal under way
NoWalk == [recs |-> <<>>, on |-> FALSE, done |-> FALSE]

NoLocks ==
    /\ walk = NoWalk
    /\ locks = <<>>
    /\ oslock = [n \in FileNames |-> 0]
    /\ held = [c \in Cursors |-> {}]
    /\ lpc = [c \in Cursors |-> Idle]

----------------------------------------------------------------------------
(* Initial states: a table on disk, opened by D4Open *)

RECURSIVE SeqsUpTo(_, _)
SeqsUpTo(S, n) ==
    IF n = 0 THEN {<<>>}
    ELSE LET shorter == SeqsUpTo(S, n - 1)
         IN  shorter \cup {Append(q, e) : q \in {t \in shorter : Len(t) = n - 1}, e \in S}

NewFile(recs, tail) == [numRecs |-> Len(recs), tail |-> tail, pre |-> HeaderArea, recs |-> recs]

\* the facade as NewFoxi returns it: no cursor, no fields, no index view;
\* data is the identity of the Data4 it points to (0 is nil), made counts the
\* Data4 objects allocated so far
NewFoxi == [data |-> 0, fields |-> Nil, indexes |-> Nil, filename |-> 0, made |-> 0]

NotOpen ==
    [open |-> FALSE, file |-> 0, NumRecs |-> 0, recNo |-> 0, atEof |-> FALSE, atBof |-> FALSE,
     atEOF |-> FALSE, Record |-> ZeroRecord, RecordOld |-> ZeroRecord, TransChanged |-> 0,
     TagSelected |-> 0, lastSeekFound |-> FALSE, Indexes |-> <<>>]

\* the Data4 that D4Open returns for file fid
D4Open(fid, f) ==
    [NotOpen EXCEPT !.open = TRUE, !.file = fid, !.NumRecs = f.numRecs, !.recNo = 0,
                    !.atBof = TRUE, !.atEof = FALSE]

Code4Init ==
    [TransactionLevel |-> 0, TransactionID |-> 0, TransactionLog |-> <<>>, DataFileList |-> <<1>>]

NoOp == [op |-> "D4Open", d |-> 1, rc |-> ErrorNone]

Init ==
    \E recs \in SeqsUpTo(InitRecords, MaxRecs), tail \in CodePages :
        /\ disk = [f \in Files |-> IF f = 1 THEN NewFile(recs, tail) ELSE NewFile(<<>>, 0)]
        /\ data = [d \in Cursors |-> IF d = 1 THEN D4Open(1, disk[1]) ELSE NotOpen]
        /\ cb = Code4Init
        /\ index = t4buildTreeComplete(KeysOfFile(recs, 1), 1)
        /\ now = 1
        /\ begun = disk
        /\ NoLocks
        /\ impl = NewFoxi
        /\ last = NoOp

----------------------------------------------------------------------------
(* Actions: one call of a library function on an open cursor *)

\* the state after a call that left machine state m2
Step(op, d, arg, m2) ==
    /\ data' = m2.data
    /\ disk' = m2.disk
    /\ cb' = m2.cb
    /\ index' = m2.index
    /\ now' = m2.now
    /\ begun' = IF cb.TransactionLevel = 0 /\ m2.cb.TransactionLevel # 0 THEN disk
                ELSE IF m2.cb.TransactionLevel = 0 /\ op # "Code4TransRollback" THEN m2.disk
                ELSE begun
    /\ walk' = NoWalk
    /\ UNCHANGED <<locks, oslock, held, lpc, impl>>
    /\ last' = [op |-> op, d |-> d, rc |-> m2.rc]

IsOpen(d) == data[d].open /\ lpc[d].pc = "idle"

\* room in the journal for one more entry
LogRoom == cb.TransactionLevel = 0 \/ Len(cb.TransactionLog) < MaxLog

Go(d) ==
    \E n \in 0..(MaxRecs + 1) : IsOpen(d) /\ Step("D4Go", d, <<n>>, D4Go(M, d, n))

Top(d) == IsOpen(d) /\ Step("D4Top", d, <<>>, D4Top(M, d))

Bottom(d) == IsOpen(d) /\ Step("D4Bottom", d, <<>>, D4Bottom(M, d))

Skip(d) ==
    \E n \in {-1, 1} : IsOpen(d) /\ Step("D4Skip", d, <<n>>, D4Skip(M, d, n))

Assign(d) ==
    \E v \in FieldVals : IsOpen(d) /\ Step("F4Assign", d, <<v>>, F4Assign(M, d, v))

AppendTrans(d) ==
    /\ IsOpen(d)
    /\ data[d].NumRecs < MaxRecs
    /\ cb.TransactionLevel = 0 => now < MaxClock
    /\ cb.TransactionLevel # 0 => Len(cb.TransactionLog) < MaxLog
    /\ Step("D4AppendTrans", d, <<>>, D4AppendTrans(M, d))

WriteTrans(d) ==
    IsOpen(d) /\ LogRoom /\ Step("D4WriteTrans", d, <<>>, D4WriteTrans(M, d))

DeleteTrans(d) ==
    IsOpen(d) /\ LogRoom /\ Step("D4DeleteTrans", d, <<>>, D4DeleteTrans(M, d))

Pack(d) == IsOpen(d) /\ Step("D4Pack", d, <<>>, D4Pack(M, d))

TransInit ==
    now < MaxClock /\ Step("Code4TransInit", 0, <<>>, Code4TransInit(M))

TransCommit == Step("Code4TransCommit", 0, <<>>, Code4TransCommit(M))

TransRollback == Step("Code4TransRollback", 0, <<>>, Code4TransRollback(M))

TagSelect(d) ==
    \E t \in {0, 1} :
        IsOpen(d) /\ Step("D4TagSelect", d, <<t>>, [M EXCEPT !.data[d].TagSelected = t])

Seek(d) ==
    \E k \in SeekValues : IsOpen(d) /\ Step("D4Seek", d, k, D4Seek(M, d, k))

Reindex(d) == IsOpen(d) /\ Step("I4Reindex", d, <<>>, I4Reindex(M, d))

\* transactions: positioning, editing, journaled writes, commit and rollback
Next ==
    \E d \in Cursors :
        \/ Go(d)
        \/ Assign(d)
        \/ AppendTrans(d)
        \/ WriteTrans(d)
        \/ DeleteTrans(d)
        \/ TransInit
        \/ TransCommit
        \/ TransRollback

Spec == Init /\ [][Next]_vars

\* positioning: every call that moves the cursor or changes the record count
NextNav ==
    \E d \in Cursors :
        \/ Go(d)
        \/ Top(d)
        \/ Bottom(d)
        \/ Skip(d)
        \/ AppendTrans(d)
        \/ Pack(d)
        \/ TagSelect(d)
        \/ Seek(d)
        \/ Reindex(d)
        \/ TransCommit
        \/ TransRollback

SpecNav == Init /\ [][NextNav]_vars

----------------------------------------------------------------------------
(* Lock actions: every call that takes the registry mutex is one step *)

\* the state after a lock manager call that left l2
LStep(op, c, rc, l2, held2, lpc2) ==
    /\ locks' = l2.locks
    /\ oslock' = l2.oslock
    /\ held' = [held EXCEPT ![c] = held2]
    /\ lpc' = [lpc EXCEPT ![c] = lpc2]
    /\ last' = [op |-> op, d |-> c, rc |-> rc]
    /\ UNCHANGED <<data, disk, cb, index, now, begun, walk, impl>>

Gain(c, l2, key) == IF l2.rc = ErrorNone THEN held[c] \cup {key} ELSE held[c]

LockFileCall(c) ==
    LET l2 == LockFile(L, Handle(c, DataName))
    IN  IsOpen(c) /\ LStep("D4LockFile", c, l2.rc, l2, Gain(c, l2, FileKey(DataName)), Idle)

UnlockFileCall(c) ==
    LET l2 == UnlockFile(L, Handle(c, DataName))
    IN  IsOpen(c) /\ LStep("D4UnlockFile", c, l2.rc, l2, held[c] \ {FileKey(DataName)}, Idle)

\* D4Lock: the range of the current record
LockCall(c) ==
    LET startPos == StartPos(data[c].recNo)
        l2 == IF data[c].recNo <= 0 THEN [L EXCEPT !.rc = ErrorMemory]
              ELSE LockRange(L, Handle(c, DataName), startPos)
    IN  IsOpen(c)
        /\ LStep("D4Lock", c, l2.rc, l2, Gain(c, l2, RangeKey(DataName, startPos)), Idle)

UnlockCall(c) ==
    LET startPos == StartPos(data[c].recNo)
        l2 == IF data[c].recNo <= 0 THEN [L EXCEPT !.rc = ErrorMemory]
              ELSE UnlockRange(L, Handle(c, DataName), startPos)
    IN  IsOpen(c)
        /\ LStep("D4Unlock", c, l2.rc, l2,
                 IF data[c].recNo <= 0 THEN held[c]
                 ELSE held[c] \ {RangeKey(DataName, startPos)}, Idle)

\* D4LockAll, first call: LockFile on the data file
LockAllData(c) ==
    LET l2 == LockFile(L, Handle(c, DataName))
    IN  /\ IsOpen(c)
        /\ IF l2.rc # ErrorNone
           THEN LStep("D4LockAll", c, l2.rc, l2, held[c], Idle)
           ELSE LStep("LockFile", c, l2.rc, l2, held[c] \cup {FileKey(DataName)},
                      [pc |-> "lockIndex", call |-> "D4LockAll", ret |-> ErrorNone])

\* D4LockAll, loop over data.Indexes: LockFile on the index file
LockAllIndex(c) ==
    LET l2 == LockFile(L, Handle(c, IndexName))
    IN  /\ lpc[c].pc = "lockIndex"
        /\ IF l2.rc = ErrorNone
           THEN LStep("D4LockAll", c, ErrorNone, l2, held[c] \cup {FileKey(IndexName)},
                      [lpc[c] EXCEPT !.pc = "idle"])
           ELSE LStep("LockFile", c, l2.rc, l2, held[c],
                      [lpc[c] EXCEPT !.pc = "unlockIndex", !.ret = l2.rc])

\* D4UnlockAll begins: UnlockFile on the index file
UnlockAllCall(c) ==
    LET l2 == UnlockFile(L, Handle(c, IndexName))
    IN  /\ IsOpen(c)
        /\ LStep("UnlockFile", c, l2.rc, l2, held[c] \ {FileKey(IndexName)},
                 [Idle EXCEPT !.pc = "unlockData", !.call = "D4UnlockAll", !.ret = l2.rc])

\* D4UnlockAll called by a failing D4LockAll: UnlockFile on the index file
UnlockAllIndex(c) ==
    LET l2 == UnlockFile(L, Handle(c, IndexName))
    IN  /\ lpc[c].pc = "unlockIndex"
        /\ LStep("UnlockFile", c, l2.rc, l2, held[c] \ {FileKey(IndexName)},
                 [lpc[c] EXCEPT !.pc = "unlockData"])

\* D4UnlockAll ends: UnlockFile on the data file, then the outer call returns
UnlockAllData(c) ==
    LET l2 == UnlockFile(L, Handle(c, DataName))
        ret == IF lpc[c].call = "D4LockAll" THEN lpc[c].ret
               ELSE IF l2.rc # ErrorNone THEN l2.rc ELSE lpc[c].ret
    IN  /\ lpc[c].pc = "unlockData"
        /\ LStep(lpc[c].call, c, ret, l2, held[c] \ {FileKey(DataName)},
                 [lpc[c] EXCEPT !.pc = "idle", !.ret = ErrorNone])

\* D4Close: File4Close on the data file runs CleanupLocks, then the cursor
\* leaves the data file list
Close(c) ==
    LET l2 == CleanupLocks(L, Handle(c, DataName))
    IN  /\ IsOpen(c)
        /\ locks' = l2.locks
        /\ oslock' = l2.oslock
        /\ held' = [held EXCEPT ![c] = {k \in held[c] : k[1] # DataName}]
        /\ data' = [data EXCEPT ![c].open = FALSE]
        /\ cb' = [cb EXCEPT !.DataFileList = SelectSeq(cb.DataFileList, LAMBDA e : e # c)]
        /\ last' = [op |-> "D4Close", d |-> c, rc |-> ErrorNone]
        /\ UNCHANGED <<disk, index, now, begun, lpc, walk, impl>>

\* two cursors opened on the same table, each with its production index
InitLock ==
    /\ disk = [f \in Files |->
                 IF f = 1 THEN NewFile([i \in 1..MaxRecs |-> <<Space, 67>>], 3)
                 ELSE NewFile(<<>>, 0)]
    /\ data = [d \in Cursors |-> D4Open(1, disk[1])]
    /\ cb = [Code4Init EXCEPT !.DataFileList = <<1, 2>>]
    /\ index = t4buildTreeComplete(KeysOfFile(disk[1].recs, 1), 1)
    /\ now = 1
    /\ begun = disk
    /\ NoLocks
    /\ impl = NewFoxi
    /\ last = NoOp

\* single lock calls of two cursors, with positioning and close
NextLock ==
    \E c \in Cursors :
        \/ Go(c)
        \/ LockFileCall(c)
        \/ UnlockFileCall(c)
        \/ LockCall(c)
        \/ UnlockCall(c)
        \/ Close(c)

SpecLock == InitLock /\ [][NextLock]_vars

\* D4LockAll and D4UnlockAll of two cursors, interleaved call by call
NextLockAll ==
    \E c \in Cursors :
        \/ LockFileCall(c)
        \/ UnlockFileCall(c)
        \/ LockAllData(c)
        \/ LockAllIndex(c)
        \/ UnlockAllCall(c)
        \/ UnlockAllIndex(c)
        \/ UnlockAllData(c)

SpecLockAll == InitLock /\ [][NextLockAll]_vars

\* D4LockAll, D4UnlockAll and D4Close of two cursors, interleaved call by call
NextClose ==
    \E c \in Cursors :
        \/ LockAllData(c)
        \/ LockAllIndex(c)
        \/ UnlockAllCall(c)
        \/ UnlockAllIndex(c)
        \/ UnlockAllData(c)
        \/ Close(c)

SpecClose == InitLock /\ [][NextClose]_vars

----------------------------------------------------------------------------
(* Tag traversal and seek through the tag object of the facade *)

\* the state after a tag call that left m2; w2 is the traversal so far
TStep(op, d, arg, m2, w2) ==
    /\ data' = m2.data
    /\ walk' = w2
    /\ last' = [op |-> op, d |-> d, rc |-> m2.rc, arg |-> arg, res |-> SeekResultOf(m2.rc)]
    /\ UNCHANGED <<disk, cb, index, now, begun, locks, oslock, held, lpc, impl>>

D4TagSelect(m, d) == [m EXCEPT !.data[d].TagSelected = 1]

\* pureGoTag.First: select the tag, then D4Top
TagFirst(d) ==
    LET m2 == D4Top(D4TagSelect(M, d), d)
        x == m2.data[d]
    IN  /\ IsOpen(d)
        /\ TStep("Tag.First", d, <<>>, m2,
                 IF x.atEof THEN [recs |-> <<>>, on |-> FALSE, done |-> TRUE]
                 ELSE [recs |-> <<x.recNo>>, on |-> TRUE, done |-> FALSE])

\* pureGoTag.Next: select the tag, then D4Skip(1)
TagNext(d) ==
    LET m2 == D4Skip(D4TagSelect(M, d), d, 1)
        x == m2.data[d]
    IN  /\ IsOpen(d)
        /\ TStep("Tag.Next", d, <<>>, m2,
                 IF ~walk.on THEN NoWalk
                 ELSE IF x.atEof THEN [walk EXCEPT !.on = FALSE, !.done = TRUE]
                 ELSE [walk EXCEPT !.recs = Append(walk.recs, x.recNo)])

\* pureGoTag.Last: select the tag, then D4Bottom
TagLast(d) ==
    IsOpen(d) /\ TStep("Tag.Last", d, <<>>, D4Bottom(D4TagSelect(M, d), d), NoWalk)

\* pureGoTag.Previous: select the tag, then D4Skip(-1)
TagPrevious(d) ==
    IsOpen(d) /\ TStep("Tag.Previous", d, <<>>, D4Skip(D4TagSelect(M, d), d, -1), NoWalk)

\* pureGoTag.SeekString: select the tag, then D4Seek
TagSeekString(d) ==
    \E k \in SeekValues :
        IsOpen(d) /\ TStep("Tag.SeekString", d, k, D4Seek(D4TagSelect(M, d), d, k), NoWalk)

\* a table of up to MaxSeekRecs records with its index, opened by one cursor
InitSeek ==
    \E recs \in SeqsUpTo(SeekRecords, MaxSeekRecs) :
        /\ disk = [f \in Files |-> IF f = 1 THEN NewFile(recs, 3) ELSE NewFile(<<>>, 0)]
        /\ data = [d \in Cursors |-> IF d = 1 THEN D4Open(1, disk[1]) ELSE NotOpen]
        /\ cb = Code4Init
        /\ index = t4buildTreeComplete(KeysOfFile(recs, 1), 1)
        /\ now = 1
        /\ begun = disk
        /\ NoLocks
        /\ impl = NewFoxi
        /\ last = NoOp

NextSeek ==
    \E d \in Cursors :
        \/ TagFirst(d)
        \/ TagNext(d)
        \/ TagLast(d)
        \/ TagPrevious(d)
        \/ TagSeekString(d)

SpecSeek == InitSeek /\ [][NextSeek]_vars

----------------------------------------------------------------------------
(* Editing outside the journal: append, write, delete, recall, flush, replace *)

\* the records a caller hands to D4Replace
ReplaceRecords == {<<Space, 66>>}

AppendCall(d) ==
    /\ IsOpen(d)
    /\ data[d].NumRecs < MaxRecs
    /\ cb.TransactionLevel = 0 => now < MaxClock
    /\ Step("D4Append", d, <<>>, D4Append(M, d))

Write(d) == IsOpen(d) /\ Step("D4Write", d, <<>>, D4Write(M, d))

\* pureGoImpl.Delete: D4Delete on the record buffer
Delete(d) == IsOpen(d) /\ Step("D4Delete", d, <<>>, SetRc(D4Delete(M, d), ErrorNone))

\* pureGoImpl.Recall: D4Recall on the record buffer
Recall(d) == IsOpen(d) /\ Step("D4Recall", d, <<>>, SetRc(D4Recall(M, d), ErrorNone))

Flush(d) == IsOpen(d) /\ Step("D4Flush", d, <<>>, D4Flush(M, d))

D4Replace(m, d, sourceRecord) ==
    IF Len(sourceRecord) < Len(m.data[d].Record) THEN SetRc(m, ErrorData)
    ELSE D4Write([m EXCEPT !.data[d].Record = SubSeq(sourceRecord, 1, Len(m.data[d].Record))], d)

Replace(d) ==
    \E r \in ReplaceRecords : IsOpen(d) /\ Step("D4Replace", d, r, D4Replace(M, d, r))

\* editing: every call that changes the record buffer, the file or the journal
NextWrite ==
    \E d \in Cursors :
        \/ Go(d)
        \/ AppendCall(d)
        \/ Write(d)
        \/ Delete(d)
        \/ Recall(d)
        \/ Flush(d)
        \/ Replace(d)
        \/ TransInit
        \/ TransCommit

SpecWrite == Init /\ [][NextWrite]_vars

\* packing: marking records in the buffer, writing them, removing them
NextPack ==
    \E d \in Cursors :
        \/ Go(d)
        \/ Delete(d)
        \/ Recall(d)
        \/ Write(d)
        \/ Pack(d)

SpecPack == InitSeek /\ [][NextPack]_vars

----------------------------------------------------------------------------
(* Creating a table: D4Create *)

\* the field types D4Create accepts: C N F D L M I Y T
FieldTypes == {67, 78, 70, 68, 76, 77, 73, 89, 84}

\* the field definitions a caller passes: an empty name and type 'X' are invalid
Field4Infos == [Name : {<<>>, <<65>>}, Type : {67, 88}, Length : {1, 10}]

\* File4Write returns a status code, ErrorNone when the bytes were written
File4Write(isReadOnly) == IF isReadOnly THEN ErrorWrite ELSE ErrorNone

writeDbfHeaderComplete ==
    LET bytesWritten == File4Write(FALSE)
    IN  IF bytesWritten # 32 THEN ErrorWrite ELSE ErrorNone

writeFieldDescriptors(fieldInfo) ==
    IF \E i \in 1..Len(fieldInfo) : File4Write(FALSE) # 32 THEN ErrorWrite ELSE ErrorNone

RECURSIVE SumLength(_, _)
SumLength(fieldInfo, i) ==
    IF i > Len(fieldInfo) THEN 0 ELSE fieldInfo[i].Length + SumLength(fieldInfo, i + 1)

\* uint16 arithmetic of the layout
headerLenOf(numFields) == (32 + numFields * 32 + 1) % 65536

recordLenOf(fieldInfo) == (1 + SumLength(fieldInfo, 1)) % 65536

ValidField(info) == Len(info.Name) \in 1..10 /\ info.Type \in FieldTypes

\* a file that File4Create has truncated; terminated: byte 0x0D was written
CreatedFile(terminated) ==
    [numRecs |-> 0, tail |-> 0, recs |-> <<>>,
     pre |-> IF terminated THEN HeaderArea ELSE [r \in {-1, 0} |-> ZeroRecord]]

\* D4Create on file f: the Data4 it returns (Nil for a nil pointer) and the
\* file it leaves
D4Create(f, exists, safety, fieldInfo) ==
    IF Len(fieldInfo) = 0 THEN [data |-> Nil, file |-> f]
    ELSE IF exists /\ safety # 0 THEN [data |-> Nil, file |-> f]
    ELSE IF \E i \in 1..Len(fieldInfo) : ~ValidField(fieldInfo[i])
    THEN [data |-> Nil, file |-> CreatedFile(FALSE)]
    ELSE IF writeDbfHeaderComplete # ErrorNone
    THEN [data |-> Nil, file |-> CreatedFile(FALSE)]
    ELSE IF writeFieldDescriptors(fieldInfo) # ErrorNone
    THEN [data |-> Nil, file |-> CreatedFile(FALSE)]
    ELSE [data |-> [HeaderLen |-> headerLenOf(Len(fieldInfo)),
                    RecordLen |-> recordLenOf(fieldInfo),
                    NumRecs |-> 0, recNo |-> 0, atBof |-> TRUE, atEof |-> TRUE],
          file |-> CreatedFile(TRUE)]

MaxFields == 2

\* D4Create by a cursor that is not open, on its own file
Create(d) ==
    \E exists \in BOOLEAN, safety \in {0, 1}, fieldInfo \in SeqsUpTo(Field4Infos, MaxFields) :
        LET r == D4Create(disk[d], exists, safety, fieldInfo)
        IN  /\ ~data[d].open
            /\ disk' = [disk EXCEPT ![d] = r.file]
            /\ data' = IF r.data = Nil THEN data
                       ELSE [data EXCEPT ![d] =
                                [NotOpen EXCEPT !.open = TRUE, !.file = d,
                                                !.atBof = TRUE, !.atEof = TRUE,
                                                !.Record = [i \in 1..r.data.RecordLen |-> Space],
                                                !.RecordOld = [i \in 1..r.data.RecordLen |-> Space]]]
            /\ cb' = IF r.data = Nil THEN cb
                     ELSE [cb EXCEPT !.DataFileList = Append(cb.DataFileList, d)]
            /\ last' = [op |-> "D4Create", d |-> d, rc |-> ErrorNone,
                        arg |-> [exists |-> exists, safety |-> safety, fieldInfo |-> fieldInfo],
                        res |-> r.data]
            /\ UNCHANGED <<index, now, begun, locks, oslock, held, lpc, walk, impl>>

\* no table is open; the files of both cursors may exist
InitCreate ==
    /\ disk = [f \in Files |-> NewFile(<<>>, 0)]
    /\ data = [d \in Cursors |-> NotOpen]
    /\ cb = [Code4Init EXCEPT !.DataFileList = <<>>]
    /\ index = t4buildTreeComplete(<<>>, 1)
    /\ now = 1
    /\ begun = disk
    /\ NoLocks
    /\ impl = NewFoxi
    /\ last = NoOp

NextCreate == \E d \in Cursors : Create(d)

SpecCreate == InitCreate /\ [][NextCreate]_vars

----------------------------------------------------------------------------
(* Partial seek: D4SeekN on a tag whose keys are two bytes long *)

\* records with a two-character field: "AB", "AC", "00"
WideRecords == {<<Space, 65, 66>>, <<Space, 65, 67>>, <<Space, 48, 48>>}

WideKeyLen == 2

\* the search strings and lengths a caller passes to D4SeekN
SeekNValues == {<<65, 66>>, <<65, 68>>, <<66, 66>>}
SeekNLengths == {0, 1, 2}

\* seekValue[:length]
Truncate(seekValue, length) ==
    IF Len(seekValue) > length THEN SubSeq(seekValue, 1, length) ELSE seekValue

D4SeekN(m, d, seekValue, length) ==
    IF m.data[d].TagSelected = 0 \/ length <= 0 THEN SetRc(m, ErrorMemory)
    ELSE D4Seek(m, d, Truncate(seekValue, length))

D4Found(m, d) == m.data[d].lastSeekFound

\* one key per record: the two characters of its field
WideKeysOfFile(recs) ==
    t4sortKeys({[KeyData |-> formatStringKey(SubSeq(recs[i], 2, 3), WideKeyLen), RecNo |-> i] :
                   i \in 1..Len(recs)})

SeekN(d) ==
    \E v \in SeekNValues, n \in SeekNLengths :
        IsOpen(d) /\ TStep("D4SeekN", d, [value |-> v, length |-> n],
                           D4SeekN(D4TagSelect(M, d), d, v, n), NoWalk)

\* a table of up to MaxSeekRecs wide records with its index, opened by one cursor
InitSeekN ==
    \E recs \in SeqsUpTo(WideRecords, MaxSeekRecs) :
        /\ disk = [f \in Files |-> IF f = 1 THEN NewFile(recs, 3) ELSE NewFile(<<>>, 0)]
        /\ data = [d \in Cursors |->
                     IF d = 1 THEN [D4Open(1, disk[1]) EXCEPT !.Record = <<0, 0, 0>>,
                                                              !.RecordOld = <<0, 0, 0>>]
                     ELSE NotOpen]
        /\ cb = Code4Init
        /\ index = t4buildTreeComplete(WideKeysOfFile(recs), WideKeyLen)
        /\ now = 1
        /\ begun = disk
        /\ NoLocks
        /\ impl = NewFoxi
        /\ last = NoOp

NextSeekN == \E d \in Cursors : SeekN(d) \/ Go(d)

SpecSeekN == InitSeekN /\ [][NextSeekN]_vars

----------------------------------------------------------------------------
(* Record-range locks at the offsets of a long table *)

\* record numbers of a table long enough for offsets beyond U+D7FF
RangeRecords == {1, 2, 27617, 27618}

\* D4IsLocked: the registry lookup under the key of record recNo
D4IsLocked(lk, recNo) ==
    IF recNo <= 0 THEN FALSE
    ELSE RangeKey(DataName, StartPos(recNo)) \in DOMAIN lk

\* the state after a range call of cursor c at offset startPos
RangeStep(op, c, startPos, l2, held2) ==
    /\ locks' = l2.locks
    /\ oslock' = l2.oslock
    /\ held' = [held EXCEPT ![c] = held2]
    /\ last' = [op |-> op, d |-> c, rc |-> l2.rc, arg |-> startPos]
    /\ UNCHANGED <<data, disk, cb, index, now, begun, lpc, walk, impl>>

LockRangeCall(c) ==
    \E r \in RangeRecords :
        LET startPos == StartPos(r)
            l2 == LockRange(L, Handle(c, DataName), startPos)
        IN  IsOpen(c)
            /\ RangeStep("LockRange", c, startPos, l2,
                         Gain(c, l2, RangeKey(DataName, startPos)))

UnlockRangeCall(c) ==
    \E r \in RangeRecords :
        LET startPos == StartPos(r)
            l2 == UnlockRange(L, Handle(c, DataName), startPos)
        IN  IsOpen(c)
            /\ RangeStep("UnlockRange", c, startPos, l2,
                         IF l2.rc = ErrorNone
                         THEN held[c] \ {RangeKey(DataName, startPos)}
                         ELSE held[c])

\* range locks and unlocks of two cursors
NextRange ==
    \E c \in Cursors :
        \/ LockRangeCall(c)
        \/ UnlockRangeCall(c)

SpecRange == InitLock /\ [][NextRange]_vars

----------------------------------------------------------------------------
(* File locks of two cursors on one table *)

\* lock_file and unlock_file of two cursors, with positioning in between
NextFileLock ==
    \E c \in Cursors :
        \/ LockFileCall(c)
        \/ UnlockFileCall(c)
        \/ Go(c)

SpecFileLock == InitLock /\ [][NextFileLock]_vars

----------------------------------------------------------------------------
(* The facade: pureGoImpl over one cursor *)

\* the file names a caller opens: the tables, and 0 for a path with no file
OpenNames == Files \cup {0}

\* Field4.Name of the table's only field: eleven bytes, NUL padded
FieldName == <<78, 65, 77, 69, 0, 0, 0, 0, 0, 0, 0>>

\* strings.ToLower on ASCII bytes
ToLower(s) == [i \in 1..Len(s) |-> IF s[i] >= 65 /\ s[i] <= 90 THEN s[i] + 32 ELSE s[i]]

\* strings.TrimRight(s, "\x00")
RECURSIVE TrimRightNul(_)
TrimRightNul(s) ==
    IF s # <<>> /\ s[Len(s)] = 0 THEN TrimRightNul(SubSeq(s, 1, Len(s) - 1)) ELSE s

\* buildFields: the wrappers in order and the map from lower-cased name to index
buildFields(names) ==
    [fields |-> names,
     indices |-> [n \in {TrimRightNul(ToLower(names[i])) : i \in 1..Len(names)} |->
                    (CHOOSE i \in 1..Len(names) :
                        /\ TrimRightNul(ToLower(names[i])) = n
                        /\ \A j \in (i + 1)..Len(names) : TrimRightNul(ToLower(names[j])) # n) - 1]]

\* Fields.ByIndex: the field at a zero-based index, Nil when out of range
ByIndex(f, i) == IF i < 0 \/ i >= Len(f.fields) THEN Nil ELSE f.fields[i + 1]

\* Fields.ByName: the map is read with the name as the caller gave it
ByName(f, name) == IF name \notin DOMAIN f.indices THEN Nil ELSE ByIndex(f, f.indices[name])

\* pureGoImpl.FieldByName
FieldByName(p, name) == IF p.fields = Nil THEN Nil ELSE ByName(p.fields, name)

\* what a caller observes of the facade
Active == impl.data # 0
FieldCount == IF impl.fields = Nil THEN 0 ELSE Len(impl.fields.fields)
Position == IF impl.data = 0 THEN 0 ELSE data[impl.data].recNo
EOF == IF impl.data = 0 THEN TRUE ELSE D4Eof(M, impl.data)
BOF == IF impl.data = 0 THEN TRUE ELSE data[impl.data].atBof

\* pureGoImpl.Close on an open facade: data, fields and filename are reset
CloseKeepingFields(p) == [p EXCEPT !.data = 0, !.filename = 0]

pureGoImplClose(p) == [p EXCEPT !.data = 0, !.fields = Nil, !.filename = 0]

\* the platform int, 64 bits wide, as hi * 2^32 + lo with lo a signed 32-bit value
PlatformInts == [hi : {-1, 0, 1}, lo : -1..MaxRecs]

\* int32(x): the low 32 bits
Int32(x) == x.lo

\* the state after a facade call that left machine state m2 and facade p2
FoxiStep(op, arg, err, m2, p2) ==
    /\ data' = m2.data
    /\ disk' = m2.disk
    /\ cb' = m2.cb
    /\ index' = m2.index
    /\ now' = m2.now
    /\ impl' = p2
    /\ last' = [op |-> op, d |-> p2.data, rc |-> m2.rc, arg |-> arg, err |-> err]
    /\ UNCHANGED <<begun, locks, oslock, held, lpc, walk>>

\* there is a production index next to table f
HasCdx(f) == f = 1

\* the address of the Tag4 that D4Open's auto-open allocates for Data4 d, and
\* of the j-th Tag4 that loadTags allocates: distinct objects, distinct addresses
AutoTag(d) == d
LoadedTag(j) == Cardinality(Cursors) + j

\* a tag walk that starts with the first tag of the first index
TagNextFromFirst(x, tagOn) ==
    LET n == Len(x.Indexes)
    IN  IF tagOn = 0 THEN (IF n = 0 THEN 0 ELSE x.Indexes[1])
        ELSE IF \E i \in 1..(n - 1) : x.Indexes[i] = tagOn
        THEN x.Indexes[(CHOOSE i \in 1..(n - 1) : x.Indexes[i] = tagOn) + 1]
        ELSE 0

\* D4TagNext on Data4 x whose indexes hold one tag each: tagOn is the index of
\* the tag passed (0 for nil), the result the index of the Tag4 returned (0
\* for nil). The first tag link of an index equals list4First, so the walk
\* always moves on to the next index, and stops when that is the first one.
D4TagNext(x, tagOn) ==
    LET n == Len(x.Indexes)
        k == IF tagOn = 0 THEN (IF n = 0 THEN 0 ELSE 1)
             ELSE IF \E i \in 1..n : x.Indexes[i] = tagOn
             THEN CHOOSE i \in 1..n : x.Indexes[i] = tagOn
             ELSE 0
    IN  IF k = 0 \/ k >= n THEN 0 ELSE x.Indexes[k + 1]

\* I4Open on an existing index file: one more Index4 in the list of the Data4
I4Open(x) == [x EXCEPT !.Indexes = Append(@, Len(@) + 1)]

\* autoOpenProductionIndex on Data4 d of table f
autoOpenProductionIndex(x, d, f) ==
    IF ~HasCdx(f) THEN x
    ELSE LET x1 == I4Open(x)
         IN  IF D4TagNext(x1, 0) # 0 THEN [x1 EXCEPT !.TagSelected = AutoTag(d)] ELSE x1

FoxiOpen ==
    \E f \in OpenNames :
        LET n == impl.made + 1
            opened == autoOpenProductionIndex(D4Open(f, disk[f]), n, f)
            m2 == [M EXCEPT !.data[n] = opened, !.cb = [Code4Init EXCEPT !.DataFileList = <<n>>]]
        IN  /\ n \in Cursors
            /\ IF impl.data # 0
               THEN FoxiStep("Open", f, TRUE, M, impl)
               ELSE IF f = 0
               THEN FoxiStep("Open", f, TRUE, [M EXCEPT !.cb = Code4Init, !.rc = ErrorOpen], impl)
               ELSE FoxiStep("Open", f, FALSE, m2,
                             [impl EXCEPT !.data = n,
                                          !.made = n,
                                          !.fields = buildFields(<<FieldName>>),
                                          !.filename = f])

\* Close: D4Close on the cursor, then the facade forgets it
FoxiClose ==
    IF impl.data = 0
    THEN FoxiStep("Close", 0, FALSE, M, impl)
    ELSE FoxiStep("Close", Position,
                  FALSE,
                  [M EXCEPT !.data[impl.data].open = FALSE,
                            !.cb.DataFileList = SelectSeq(cb.DataFileList, LAMBDA e : e # impl.data)],
                  pureGoImplClose(impl))

FoxiGoto ==
    \E x \in PlatformInts :
        LET m2 == D4Go(M, impl.data, Int32(x))
        IN  IF impl.data = 0
            THEN FoxiStep("Goto", x, TRUE, M, impl)
            ELSE FoxiStep("Goto", x, m2.rc # ErrorNone, m2, impl)

FoxiSkip ==
    \E x \in PlatformInts :
        LET m2 == D4Skip(M, impl.data, Int32(x))
        IN  IF impl.data = 0
            THEN FoxiStep("Skip", x, TRUE, M, impl)
            ELSE FoxiStep("Skip", x, m2.rc # ErrorNone, m2, impl)

\* the names a caller looks up: NAME, name, Name and AGE
LookupNames == {<<78, 65, 77, 69>>, <<110, 97, 109, 101>>, <<78, 97, 109, 101>>, <<65, 71, 69>>}

\* FieldByName reads the collection and changes nothing
FoxiFieldByName ==
    \E name \in LookupNames : FoxiStep("FieldByName", name, FALSE, M, impl)

\* a facade fresh from NewFoxi, with the tables on disk
InitFoxi ==
    \E recs \in SeqsUpTo(InitRecords, MaxRecs) :
        /\ disk = [f \in Files |-> IF f = 1 THEN NewFile(recs, 3) ELSE NewFile(<<>>, 3)]
        /\ data = [d \in Cursors |-> NotOpen]
        /\ cb = Code4Init
        /\ index = t4buildTreeComplete(KeysOfFile(recs, 1), 1)
        /\ now = 1
        /\ begun = disk
        /\ NoLocks
        /\ impl = NewFoxi
        /\ last = [op |-> "NewFoxi", d |-> 0, rc |-> ErrorNone, arg |-> 0, err |-> FALSE]

NextFoxi ==
    \/ FoxiOpen
    \/ FoxiClose
    \/ FoxiGoto
    \/ FoxiSkip
    \/ FoxiFieldByName

SpecFoxi == InitFoxi /\ [][NextFoxi]_vars

----------------------------------------------------------------------------
(* Opening a table from disk: parseDbfHeader and parseFieldDefs *)

\* the version bytes parseDbfHeader accepts
DbfVersions == {3, 48, 67, 245}

\* the room a Visual FoxPro header (version 0x30) keeps after the terminator
BacklinkLen == 263

\* headers of files on disk: version byte, the two length words, the field
\* descriptors that precede the 0x0D terminator
DiskHeaders ==
    {h \in [Version : {2, 3, 48}, HeaderLen : {32, 65, 97, 65 + BacklinkLen, 97 + BacklinkLen},
            RecordLen : {0, 2}, descs : SeqsUpTo({67}, MaxFields)] :
        h.HeaderLen \in {32, headerLenOf(Len(h.descs)),
                         headerLenOf(Len(h.descs)) + (IF h.Version = 48 THEN BacklinkLen ELSE 0)}}

parseDbfHeader(h) ==
    IF h.Version \notin DbfVersions THEN ErrorData
    ELSE IF h.HeaderLen < 33 \/ h.RecordLen < 1 THEN ErrorData
    ELSE ErrorNone

\* parseFieldDefs: descriptors are read until the terminator; none is an error
parseFieldDefs(h) == IF Len(h.descs) = 0 THEN ErrorData ELSE ErrorNone

\* D4Open on a file with header h: the Data4File it builds, Nil for a nil pointer
D4OpenHeader(h) ==
    IF parseDbfHeader(h) # ErrorNone THEN Nil
    ELSE IF parseFieldDefs(h) # ErrorNone THEN Nil
    ELSE [HeaderLen |-> h.HeaderLen, RecordLen |-> h.RecordLen, NumFields |-> Len(h.descs)]

\* D4Open by a cursor that is not open, on the file with the header on disk
OpenHeader(d) ==
    LET r == D4OpenHeader(disk[d])
    IN  /\ ~data[d].open
        /\ data' = IF r = Nil THEN data
                   ELSE [data EXCEPT ![d] = [NotOpen EXCEPT !.open = TRUE, !.file = d, !.atBof = TRUE]]
        /\ cb' = IF r = Nil THEN cb ELSE [cb EXCEPT !.DataFileList = Append(cb.DataFileList, d)]
        /\ last' = [op |-> "D4Open", d |-> d, rc |-> ErrorNone, arg |-> disk[d], res |-> r]
        /\ UNCHANGED <<disk, index, now, begun, locks, oslock, held, lpc, walk, impl>>

\* no table is open; each file has one of the headers
InitOpen ==
    \E h1 \in DiskHeaders, h2 \in DiskHeaders :
        /\ disk = [f \in Files |-> IF f = 1 THEN h1 ELSE h2]
        /\ data = [d \in Cursors |-> NotOpen]
        /\ cb = [Code4Init EXCEPT !.DataFileList = <<>>]
        /\ index = t4buildTreeComplete(<<>>, 1)
        /\ now = 1
        /\ begun = disk
        /\ NoLocks
        /\ impl = NewFoxi
        /\ last = [NoOp EXCEPT !.op = "Code4Init"]

NextOpen == \E d \in Cursors : OpenHeader(d)

SpecOpen == InitOpen /\ [][NextOpen]_vars

----------------------------------------------------------------------------
(* Two tables open in one Code4 *)

\* cursor 1 on the first table and cursor 2 on the second, one environment
InitTwo ==
    \E r1 \in SeqsUpTo(InitRecords, MaxRecs), r2 \in SeqsUpTo(InitRecords, 1) :
        /\ r1 # <<>> /\ r2 # <<>>
        /\ disk = [f \in Files |-> IF f = 1 THEN NewFile(r1, 3) ELSE NewFile(r2, 3)]
        /\ data = [d \in Cursors |-> D4Open(d, disk[d])]
        /\ cb = [Code4Init EXCEPT !.DataFileList = <<1, 2>>]
        /\ index = t4buildTreeComplete(KeysOfFile(r1, 1), 1)
        /\ now = 1
        /\ begun = disk
        /\ NoLocks
        /\ impl = NewFoxi
        /\ last = NoOp

\* journaled deletes on either table inside a transaction, and its rollback
NextTwo ==
    \E d \in Cursors :
        \/ Go(d)
        \/ DeleteTrans(d)
        \/ TransInit
        \/ TransRollback

SpecTwo == InitTwo /\ [][NextTwo]_vars

----------------------------------------------------------------------------
(* Journaled writes on a file whose writes can fail *)

\* D4WriteTrans where File4Write returns ErrorNone (ok) or ErrorWrite: the
\* journal entry is made first, a failed d4WriteLow returns before it changes
\* the file, the header or RecordOld
D4WriteTransIO(m, d, ok) ==
    LET m1 == D4TransUpdate(m, d, m.data[d].recNo, m.data[d].RecordOld)
    IN  IF ok THEN D4WriteTrans(m, d) ELSE SetRc(m1, ErrorWrite)

WriteTransIO(d) ==
    \E ok \in BOOLEAN :
        IsOpen(d) /\ LogRoom /\ Step("D4WriteTrans", d, <<>>, D4WriteTransIO(M, d, ok))

\* edits and journaled writes that may fail, inside and outside a transaction
NextFail ==
    \E d \in Cursors :
        \/ Go(d)
        \/ Assign(d)
        \/ WriteTransIO(d)
        \/ TransInit
        \/ TransRollback

SpecFail == Init /\ [][NextFail]_vars

----------------------------------------------------------------------------
(* The index view of the facade, and D4LockAll over the attached indexes *)

\* pureGoImpl.Indexes: the view is made once, around the Data4 of that moment
Indexes(p) ==
    IF p.indexes = Nil
    THEN [p EXCEPT !.indexes = [data |-> p.data, loaded |-> FALSE, indexes |-> <<>>, tags |-> <<>>]]
    ELSE p

\* pureGoIndex.loadTags: the D4TagNext walk from tagOn on, keeping the tags of
\* index k; j tags were wrapped so far
RECURSIVE loadTags(_, _, _, _, _)
loadTags(x, d, k, tagOn, j) ==
    LET t == D4TagNext(x, tagOn)
    IN  IF t = 0 THEN <<>>
        ELSE IF t = k
        THEN <<[tag4 |-> LoadedTag(j + 1), data |-> d]>> \o loadTags(x, d, k, t, j + 1)
        ELSE loadTags(x, d, k, t, j)

\* pureGoIndexesImpl.Load on view v: the data it leaves, the view, the error
Load(m, v) ==
    IF v.data = 0 THEN [m |-> m, v |-> v, err |-> TRUE]
    ELSE IF v.loaded THEN [m |-> m, v |-> v, err |-> FALSE]
    ELSE IF ~HasCdx(m.data[v.data].file)
    THEN [m |-> m, v |-> [v EXCEPT !.loaded = TRUE], err |-> FALSE]
    ELSE LET x1 == I4Open(m.data[v.data])
             k == Len(x1.Indexes)
         IN  [m |-> [m EXCEPT !.data[v.data] = x1],
              v |-> [v EXCEPT !.loaded = TRUE,
                              !.indexes = <<[index4 |-> k, data |-> v.data]>>,
                              !.tags = loadTags(x1, v.data, k, 0, 0)],
              err |-> FALSE]

\* pureGoIndexesImpl.SelectedTag: the wrapped tag whose Tag4 is the selected one
SelectedTag(m, v) ==
    IF v.data = 0 THEN Nil
    ELSE IF m.data[v.data].TagSelected = 0 THEN Nil
    ELSE IF \E i \in 1..Len(v.tags) : v.tags[i].tag4 = m.data[v.data].TagSelected
    THEN v.tags[CHOOSE i \in 1..Len(v.tags) : v.tags[i].tag4 = m.data[v.data].TagSelected]
    ELSE Nil

\* pureGoTag.IsSelected
IsSelected(m, tag) == tag.data # 0 /\ m.data[tag.data].TagSelected = tag.tag4

\* the File4 of the i-th Index4 of cursor c: every I4Open has its own descriptor
IndexHandle(c, i) == [owner |-> c + Cardinality(Cursors) * (i - 1), Name |-> IndexName]

\* D4UnlockAll: UnlockFile on index i and the ones after it, then on the data
\* file; the last error is returned
RECURSIVE D4UnlockAll(_, _, _, _, _)
D4UnlockAll(l, c, idxs, i, lastError) ==
    IF i > Len(idxs)
    THEN LET l2 == UnlockFile(l, Handle(c, DataName))
         IN  [l2 EXCEPT !.rc = IF l2.rc # ErrorNone THEN l2.rc ELSE lastError]
    ELSE LET l2 == UnlockFile(l, IndexHandle(c, idxs[i]))
         IN  D4UnlockAll(l2, c, idxs, i + 1, IF l2.rc # ErrorNone THEN l2.rc ELSE lastError)

\* D4LockAll from index i on: a failing LockFile unlocks everything
RECURSIVE LockIndexes(_, _, _, _)
LockIndexes(l, c, idxs, i) ==
    IF i > Len(idxs) THEN [l EXCEPT !.rc = ErrorNone]
    ELSE LET l2 == LockFile(l, IndexHandle(c, idxs[i]))
         IN  IF l2.rc # ErrorNone
             THEN [D4UnlockAll(l2, c, idxs, 1, ErrorNone) EXCEPT !.rc = l2.rc]
             ELSE LockIndexes(l2, c, idxs, i + 1)

D4LockAll(l, c, idxs) ==
    LET l1 == LockFile(l, Handle(c, DataName))
    IN  IF l1.rc # ErrorNone THEN l1 ELSE LockIndexes(l1, c, idxs, 1)

\* the state after a call on the view or on the locks of the facade's cursor
ViewStep(op, arg, err, rc, m2, p2, l2) ==
    /\ data' = m2.data
    /\ impl' = p2
    /\ locks' = l2.locks
    /\ oslock' = l2.oslock
    /\ last' = [op |-> op, d |-> impl.data, rc |-> rc, arg |-> arg, err |-> err]
    /\ UNCHANGED <<disk, cb, index, now, begun, held, lpc, walk>>

FoxiIndexes == impl.indexes = Nil /\ ViewStep("Indexes", 0, FALSE, ErrorNone, M, Indexes(impl), L)

FoxiLoad ==
    LET r == Load(M, impl.indexes)
    IN  /\ impl.indexes # Nil
        /\ ViewStep("Load", 0, r.err, ErrorNone, r.m, [impl EXCEPT !.indexes = r.v], L)

\* SelectTag with one of the tags the view handed out, or with nil
FoxiSelectTag ==
    /\ impl.indexes # Nil
    /\ \E tag \in {impl.indexes.tags[i] : i \in 1..Len(impl.indexes.tags)} \cup {Nil} :
          IF impl.indexes.data = 0
          THEN ViewStep("SelectTag", tag, TRUE, ErrorNone, M, impl, L)
          ELSE ViewStep("SelectTag", tag, FALSE, ErrorNone,
                        [M EXCEPT !.data[impl.indexes.data].TagSelected =
                                     IF tag = Nil THEN 0 ELSE tag.tag4],
                        impl, L)

\* D4LockAll and D4UnlockAll on the Data4 of the facade
LockAll ==
    LET l2 == D4LockAll(L, impl.data, data[impl.data].Indexes)
    IN  impl.data # 0 /\ ViewStep("D4LockAll", 0, l2.rc # ErrorNone, l2.rc, M, impl, l2)

UnlockAll ==
    LET l2 == D4UnlockAll(L, impl.data, data[impl.data].Indexes, 1, ErrorNone)
    IN  impl.data # 0 /\ ViewStep("D4UnlockAll", 0, l2.rc # ErrorNone, l2.rc, M, impl, l2)

NextIdx ==
    \/ FoxiOpen
    \/ FoxiClose
    \/ FoxiIndexes
    \/ FoxiLoad
    \/ FoxiSelectTag
    \/ LockAll
    \/ UnlockAll

SpecIdx == InitFoxi /\ [][NextIdx]_vars

----------------------------------------------------------------------------
(* Claims *)

\* C1: after a successful rollback every data file is byte for byte what it
\* was when the transaction began: header, record count, records and length.
C1_RollbackRestoresFile ==
    (last.op = "Code4TransRollback" /\ last.rc = ErrorNone) => disk = begun

\* the newest entry of a journal
LastEntry(log) == log[Len(log)]

\* C2: an Update entry that a journaled write adds names record N together
\* with the bytes record N held on disk before the write, whatever
\* positioning came before.
C2_UpdateEntryHoldsPriorBytes ==
    [][(/\ last'.op = "D4WriteTrans"
        /\ Len(cb'.TransactionLog) = Len(cb.TransactionLog) + 1
        /\ LastEntry(cb'.TransactionLog).RecNo \in 1..Len(disk[1].recs))
       => LastEntry(cb'.TransactionLog).OldRecord
            = disk[1].recs[LastEntry(cb'.TransactionLog).RecNo]]_vars

\* two registry keys cover a common byte of the same file
Overlap(k1, k2) ==
    k1[1] = k2[1] /\ (Len(k1) = 1 \/ Len(k2) = 1 \/ k1[2] = k2[2])

\* cursor c is the owner recorded in the registry entry of key k
OwnsEntry(c, k) == k \in DOMAIN locks /\ locks[k].File.owner = c

\* C3: of two cursors that call lock_file on the same data file one succeeds
\* and the other fails; the file lock is never held by two cursors at once.
C3_FileLockExclusive ==
    \A c \in Cursors : \A o \in Cursors \ {c} :
        ~(FileKey(DataName) \in held[c] /\ FileKey(DataName) \in held[o])

\* C4: while a cursor holds a lock no other cursor acquires an overlapping
\* one; a cursor that still holds a range lock after unlocking another range
\* keeps every other cursor's lock_file failing.
C4_NoOverlappingLocks ==
    \A c \in Cursors : \A o \in Cursors \ {c} :
        \A k1 \in held[c] : \A k2 \in held[o] : ~Overlap(k1, k2)

\* C5: when lock_all fails after locking the data file, the data file lock
\* that call took is released: no registry entry and no advisory lock of the
\* caller remains.
C5_LockAllAtomic ==
    \A c \in Cursors :
        (last.op = "D4LockAll" /\ last.d = c /\ last.rc # ErrorNone /\ lpc[c].call = "D4LockAll")
        => (~OwnsEntry(c, FileKey(DataName)) /\ oslock[DataName] # c)

\* C6: a registry entry and its advisory lock survive every call made through
\* another cursor's handle: unlock_file, unlock, close of the other cursor
\* leave them as they are.
C6_ForeignCallsKeepEntry ==
    [][\A k \in DOMAIN locks :
          locks[k].File.owner # last'.d
          => /\ k \in DOMAIN locks'
             /\ locks'[k] = locks[k]
             /\ (oslock[k[1]] = locks[k].File.owner => oslock'[k[1]] = oslock[k[1]])]_vars

\* the three legal shapes of a cursor's position
PositionOK(x) ==
    \/ x.recNo = 0 /\ x.atBof
    \/ x.recNo >= 1 /\ x.recNo <= x.NumRecs /\ ~x.atEof /\ (x.atBof <=> x.recNo = 1)
    \/ x.recNo = x.NumRecs + 1 /\ x.atEof /\ ~x.atBof

Positioning ==
    {"D4Go", "D4Top", "D4Bottom", "D4Skip", "D4AppendTrans", "D4Pack", "D4Seek",
     "I4Reindex", "Code4TransCommit", "Code4TransRollback"}

\* C7: after any navigation, append, pack, seek, reindex, commit or rollback
\* the position is 0 with BOF, or a record 1..count with EOF false and BOF
\* exactly on record 1, or count+1 with EOF true and BOF false.
C7_PositionInvariant ==
    last.op \in Positioning => PositionOK(data[1])

IsEmptyPosition(x) == x.recNo = 0 /\ x.atEof /\ x.atBof

\* C8: a cursor on a table of zero records is Empty (record 0, EOF and BOF
\* both true) right after open and after any navigation.
C8_EmptyTableIsEmpty ==
    (/\ data[1].NumRecs = 0
     /\ last.op \in {"D4Open", "D4Go", "D4Top", "D4Bottom", "D4Skip"})
    => IsEmptyPosition(data[1])

\* the records of the table that are not deleted, by number
ActiveRecords == {i \in 1..Len(disk[1].recs) : disk[1].recs[i][1] # Star}

\* the key under which the index holds record i
KeyAt(i) == KeyOfRecord(disk[1].recs[i], index.KeyLen)

\* C9: a traversal First, Next, Next, ... up to EOF visits every record that
\* is not deleted exactly once, in non-descending key order, and visits no
\* other record.
C9_TraversalInKeyOrder ==
    walk.done =>
        /\ {walk.recs[i] : i \in 1..Len(walk.recs)} = ActiveRecords
        /\ \A i \in 1..Len(walk.recs) : \A j \in 1..Len(walk.recs) :
              i < j => /\ walk.recs[i] # walk.recs[j]
                       /\ Compare(KeyAt(walk.recs[i]), KeyAt(walk.recs[j])) <= 0

\* the records whose key is strictly greater than k
Greater(k) == {i \in 1..Len(disk[1].recs) : Compare(KeyAt(i), k) > 0}

\* C10: a seek for a key that no record holds, while some record holds a
\* greater key, reports After and leaves the cursor on a record with the least
\* key that is strictly greater.
C10_SeekAfterLeastGreater ==
    (/\ last.op = "Tag.SeekString"
     /\ \A i \in 1..Len(disk[1].recs) : Compare(KeyAt(i), last.arg) # 0
     /\ Greater(last.arg) # {})
    => /\ last.res = "SeekAfter"
       /\ data[1].recNo \in Greater(last.arg)
       /\ \A i \in Greater(last.arg) : Compare(KeyAt(data[1].recNo), KeyAt(i)) <= 0

\* the records whose key equals the search key k formatted to the key length
Matching(k) ==
    {i \in 1..Len(disk[1].recs) : KeyAt(i) = formatStringKey(k, index.KeyLen)}

\* C11: a seek for a key that some record holds, compared as formatted keys,
\* reports Success and leaves the cursor on a record whose formatted key
\* equals the formatted search key.
C11_SeekExactMatch ==
    (/\ last.op = "Tag.SeekString"
     /\ Matching(last.arg) # {})
    => /\ last.res = "SeekSuccess"
       /\ data[1].recNo \in Matching(last.arg)

\* the records whose key is not less than the search key k formatted to the
\* key length
NotLess(k) ==
    {i \in 1..Len(disk[1].recs) :
        Compare(KeyAt(i), formatStringKey(k, index.KeyLen)) >= 0}

\* C12: a seek reports Eof exactly when no key in the tag is greater than or
\* equal to the search key, however many leaf blocks the tag has; after a
\* seek that reported Eof the cursor reports end of file.
C12_SeekEofIffNoKeyNotLess ==
    last.op = "Tag.SeekString" =>
        /\ (last.res = "SeekEOF") <=> (NotLess(last.arg) = {})
        /\ (last.res = "SeekEOF") => D4Eof(M, 1)

\* C13: natural-order traversal skips deleted records: after First, Last,
\* Next, Previous or Skip has completed on a record, the tombstone of that
\* record is not '*'.
C13_TraversalSkipsDeleted ==
    \A d \in Cursors :
        (/\ last.op \in {"D4Top", "D4Bottom", "D4Skip"}
         /\ last.d = d
         /\ last.rc = ErrorNone
         /\ data[d].recNo \in 1..data[d].NumRecs
         /\ ~data[d].atEof
         /\ ~data[d].atBof)
        => ~D4Deleted(M, d)

\* the calls that change a record: append, write, delete, recall
Mutating == {"D4Append", "D4Write", "D4Delete", "D4Recall"}

\* the step is a successful mutating call made while a transaction is active
MutatesInTransaction ==
    /\ cb.TransactionLevel > 0
    /\ last'.op \in Mutating
    /\ last'.rc = ErrorNone

\* C14: while a transaction is active, every append, write, delete or recall
\* that completes successfully adds one entry to the journal, and the entry
\* names the record the call acted on.
C14_MutationsAreJournaled ==
    [][MutatesInTransaction =>
          /\ Len(cb'.TransactionLog) = Len(cb.TransactionLog) + 1
          /\ LET e == cb'.TransactionLog[Len(cb'.TransactionLog)]
             IN  e.on = last'.d /\ e.RecNo = data'[last'.d].recNo]_vars

\* the records of recs from position i on that are neither marked '*' nor
\* numbered in dead, in their order
RECURSIVE Survivors(_, _, _)
Survivors(recs, dead, i) ==
    IF i > Len(recs) THEN <<>>
    ELSE IF recs[i][1] = Star \/ i \in dead THEN Survivors(recs, dead, i + 1)
    ELSE <<recs[i]>> \o Survivors(recs, dead, i + 1)

\* the step is a pack by cursor d right after d deleted its current record
PackAfterDelete(d) ==
    /\ last.op = "D4Delete"
    /\ last.d = d
    /\ data[d].recNo \in 1..data[d].NumRecs
    /\ last'.op = "D4Pack"
    /\ last'.d = d

\* C15: a delete on the current record followed at once by a pack, with no
\* write in between, removes that record: the file keeps the other records
\* that are not deleted, in their order and with their bytes, and the count
\* is their number.
C15_DeleteThenPackRemoves ==
    [][\A d \in Cursors :
          PackAfterDelete(d) =>
              /\ disk'[data[d].file].recs =
                     Survivors(disk[data[d].file].recs, {data[d].recNo}, 1)
              /\ data'[d].NumRecs = Len(disk'[data[d].file].recs)]_vars

\* the records of recs that are marked '*'
Tombstoned(recs) == {i \in 1..Len(recs) : recs[i][1] = Star}

\* C16: a pack that completes reduces the count by exactly the number of
\* records whose tombstone is '*' when it starts; the records that survive
\* keep their relative order and their bytes and are renumbered from 1 to the
\* new count.
C16_PackRemovesTombstoned ==
    [][\A d \in Cursors :
          (last'.op = "D4Pack" /\ last'.d = d /\ last'.rc = ErrorNone) =>
              LET f == data[d].file
              IN  /\ data'[d].NumRecs =
                         data[d].NumRecs - Cardinality(Tombstoned(disk[f].recs))
                  /\ disk'[f].numRecs = data'[d].NumRecs
                  /\ disk'[f].recs = Survivors(disk[f].recs, {}, 1)]_vars

\* a pack has just removed one record of a table of three and has left two
\* records with different field values
C16_PackedTwoOfThree ==
    /\ last.op = "D4Pack"
    /\ last.rc = ErrorNone
    /\ Len(index.blocks) = 3
    /\ data[1].NumRecs = 2
    /\ Len(disk[1].recs) = 2
    /\ disk[1].recs[1][2] # disk[1].recs[2][2]

\* C17: an append increments the count by exactly one and leaves the bytes of
\* every record that existed before it unchanged.
C17_AppendAddsOne ==
    [][\A d \in Cursors :
          (last'.op = "D4Append" /\ last'.d = d /\ last'.rc = ErrorNone) =>
              LET f == data[d].file
              IN  /\ data'[d].NumRecs = data[d].NumRecs + 1
                  /\ Len(disk'[f].recs) >= Len(disk[f].recs)
                  /\ \A i \in 1..Len(disk[f].recs) : disk'[f].recs[i] = disk[f].recs[i]]_vars

\* an append has just made the count two on a table that held one record
C17_AppendedSecond ==
    /\ last.op = "D4Append"
    /\ last.rc = ErrorNone
    /\ data[1].NumRecs = 2
    /\ data[1].recNo = 2
    /\ Len(disk[1].recs) = 1

\* C18: between operations, for every record number N from 1 to the count of
\* an open cursor, the file holds record N and its tombstone byte is ' ' or
\* '*'; in particular an append writes the blank template of the new record.
C18_EveryRecordHasTombstone ==
    \A d \in Cursors :
        data[d].open =>
            \A N \in 1..data[d].NumRecs :
                /\ N <= Len(disk[data[d].file].recs)
                /\ disk[data[d].file].recs[N][1] \in {Space, Star}

\* the step is a write, flush or commit that succeeds right after cursor d
\* appended a record
SavesAppend(d) ==
    /\ last.op = "D4Append"
    /\ last.d = d
    /\ last.rc = ErrorNone
    /\ last'.op \in {"D4Write", "D4Flush", "Code4TransCommit"}
    /\ last'.op # "Code4TransCommit" => last'.d = d
    /\ last'.rc = ErrorNone

\* C19: after an append followed by a successful write, flush or commit, the
\* record count in the header on disk equals the count of the cursor, so that
\* a reopen of the file reports the appended record.
C19_HeaderCountAfterAppend ==
    [][\A d \in Cursors :
          SavesAppend(d) => disk'[data[d].file].numRecs = data'[d].NumRecs]_vars

\* the calls that write the record buffer to the file
RecordWrites == {"D4Write", "D4Replace", "D4WriteTrans"}

\* C20: record 0 is never a write destination: a write, replace or journaled
\* write issued while the record number of the cursor is 0 changes no byte of
\* the file, and no record write changes a byte below header_len.
C20_RecordZeroNeverWritten ==
    [][\A d \in Cursors :
          (last'.op \in RecordWrites /\ last'.d = d) =>
              /\ data[d].recNo = 0 => disk' = disk
              /\ disk'[data[d].file].pre = disk[data[d].file].pre]_vars

\* the last call was a D4Create with safety off whose field definitions,
\* at least one, are all valid
CreatedValid ==
    /\ last.op = "D4Create"
    /\ last.arg.safety = 0
    /\ Len(last.arg.fieldInfo) > 0
    /\ \A i \in 1..Len(last.arg.fieldInfo) : ValidField(last.arg.fieldInfo[i])

\* C21: creating a data file from N valid field definitions with safety off
\* succeeds and returns an open cursor whose header length is 32 + 32*N + 1,
\* whose record length is 1 plus the sum of the field lengths, whose count is
\* 0, and whose EOF and BOF are both true.
C21_CreateReturnsOpenCursor ==
    CreatedValid =>
        /\ last.res # Nil
        /\ last.res.HeaderLen = 32 + 32 * Len(last.arg.fieldInfo) + 1
        /\ last.res.RecordLen = 1 + SumLength(last.arg.fieldInfo, 1)
        /\ last.res.NumRecs = 0
        /\ last.res.atEof
        /\ last.res.atBof
        /\ data[last.d].open

\* the record numbers a caller passes to goto
GotoTargets == -1..(MaxSeekRecs + 1)

\* C22: goto(N) fails with the bad-record error whenever N < 1 or N > count,
\* and for 1 <= N <= count it loads record N from the file and leaves the
\* cursor on record N with EOF false and BOF true exactly for N = 1.
C22_GotoLoadsOrRejects ==
    \A d \in Cursors : \A N \in GotoTargets :
        data[d].open =>
            LET m2 == D4Go(M, d, N)
                x2 == m2.data[d]
            IN  IF N < 1 \/ N > data[d].NumRecs
                THEN m2.rc = ErrorData
                ELSE /\ m2.rc = ErrorNone
                     /\ x2.recNo = N
                     /\ N <= Len(disk[data[d].file].recs)
                     /\ x2.Record = disk[data[d].file].recs[N]
                     /\ ~x2.atEof
                     /\ x2.atBof = (N = 1)

\* the calls that move the cursor in natural order
Navigation == {"D4Go", "D4Top", "D4Bottom", "D4Skip"}

\* C23: if a navigation call (goto, skip, first, last, next, previous) fails,
\* the record number, the BOF flag and the EOF flag of the cursor are exactly
\* what they were before the call.
C23_FailedMoveKeepsPosition ==
    [][\A d \in Cursors :
          (last'.op \in Navigation /\ last'.d = d /\ last'.rc # ErrorNone) =>
              /\ data'[d].recNo = data[d].recNo
              /\ data'[d].atBof = data[d].atBof
              /\ data'[d].atEof = data[d].atEof]_vars

\* a goto has just failed while the cursor stood on record 1 of two
C23_FailedOnRecord ==
    /\ last.op = "D4Go"
    /\ last.rc = ErrorData
    /\ data[1].recNo = 1
    /\ data[1].NumRecs = 2
    /\ data[1].atBof
    /\ ~data[1].atEof

\* the counts a caller passes to skip
SkipCounts == -2..2

\* C24: skip(K) never fails at a boundary: if current + K < 1 the cursor goes
\* before the first record (record number 0, BOF true, EOF false); if
\* current + K > count it goes after the last record (record number
\* count + 1, EOF true, BOF false); otherwise it lands on record current + K.
C24_SkipBoundaries ==
    \A d \in Cursors : \A K \in SkipCounts :
        data[d].open =>
            LET m2 == D4Skip(M, d, K)
                x2 == m2.data[d]
                target == data[d].recNo + K
            IN  /\ m2.rc = ErrorNone
                /\ IF target < 1
                   THEN x2.recNo = 0 /\ x2.atBof /\ ~x2.atEof
                   ELSE IF target > data[d].NumRecs
                   THEN x2.recNo = data[d].NumRecs + 1 /\ x2.atEof /\ ~x2.atBof
                   ELSE x2.recNo = target

\* the registry entries taken through a file of cursor c
EntriesOf(c) == {k \in DOMAIN locks : locks[k].File.owner = c}

\* C25: closing a cursor releases every lock held on its data file and on
\* its attached index files: no registry entry and no lock of the operating
\* system taken through one of its files remains.
C25_CloseReleasesAllLocks ==
    \A c \in Cursors :
        ~data[c].open =>
            /\ EntriesOf(c) = {}
            /\ \A name \in FileNames : oslock[name] # c

\* the transaction-aware entry points that change a record
JournaledCalls == {"D4AppendTrans", "D4WriteTrans", "D4DeleteTrans"}

\* C26: when no transaction is active, an append, write or delete through
\* the transaction-aware entry points begins a transaction implicitly: after
\* it has completed the nesting level is greater than 0.
C26_MutationBeginsTransaction ==
    [][(/\ cb.TransactionLevel = 0
        /\ last'.op \in JournaledCalls
        /\ last'.rc = ErrorNone)
       => cb'.TransactionLevel > 0]_vars

\* C27: calling transaction init while a transaction is active is a no-op:
\* the nesting level, the transaction id and the journal are unchanged.
C27_NestedInitIsNoOp ==
    cb.TransactionLevel > 0 =>
        LET m2 == Code4TransInit(M)
        IN  /\ m2.cb.TransactionLevel = cb.TransactionLevel
            /\ m2.cb.TransactionID = cb.TransactionID
            /\ m2.cb.TransactionLog = cb.TransactionLog

\* C28: a delete followed by a recall on the same record leaves the tombstone
\* byte of that record in the file equal to its value before the delete:
\* the delete leaves the file as it was, and so does the recall that follows.
C28_DeleteRecallKeepsDiskTombstone ==
    [][\A d \in Cursors :
          /\ (last'.op = "D4Delete" /\ last'.d = d) => disk' = disk
          /\ (last.op = "D4Delete" /\ last.d = d /\ last'.op = "D4Recall" /\ last'.d = d)
             => disk' = disk]_vars

\* a recall has just cleared the mark in the buffer of a record whose
\* tombstone in the file is '*'
C28_RecalledMarkedRecord ==
    /\ last.op = "D4Recall"
    /\ data[1].recNo \in 1..Len(disk[1].recs)
    /\ data[1].Record[1] = Space
    /\ disk[1].recs[data[1].recNo][1] = Star

\* the first n bytes of key k
Prefix(k, n) == SubSeq(k, 1, Min(n, Len(k)))

\* the records whose key agrees with value on the first n bytes
PrefixMatches(value, n) ==
    {i \in 1..Len(disk[1].recs) :
        Prefix(SubSeq(disk[1].recs[i], 2, 3), n) = Prefix(value, n)}

\* C29: a partial seek compares only the first length bytes: it reports
\* Success, with the cursor on a matching record and the seek found, whenever
\* the first length bytes of some key equal the first length bytes of the
\* value, even if the rest of that key differs.
C29_PartialSeekMatchesPrefix ==
    (/\ last.op = "D4SeekN"
     /\ last.arg.length > 0
     /\ PrefixMatches(last.arg.value, last.arg.length) # {})
    => /\ last.rc = R4Success
       /\ D4Found(M, 1)
       /\ data[1].recNo \in PrefixMatches(last.arg.value, last.arg.length)

\* C30: range locks are keyed by (file, start): a lock_range or unlock_range
\* at one start offset leaves the lock state that is_locked reports for every
\* record at a different start offset as it was.
C30_RangeLocksKeyedByStart ==
    [][\A r \in RangeRecords :
          (last'.op \in {"LockRange", "UnlockRange"} /\ last'.arg # StartPos(r))
          => (D4IsLocked(locks', r) = D4IsLocked(locks, r))]_vars

\* C31: once the cursor that won a lock_file contention has called
\* unlock_file, so that no cursor has a lock_file it won and did not give
\* back, the next lock_file of the other cursor succeeds.
C31_LoserUnblockedAfterUnlock ==
    [][(/\ last'.op = "D4LockFile"
        /\ \A c \in Cursors : FileKey(DataName) \notin held[c])
       => last'.rc = ErrorNone]_vars

\* what a caller observes of a facade that was never opened
Unopened == [active |-> FALSE, fields |-> 0, position |-> 0, eof |-> TRUE, bof |-> TRUE]

\* C32: after Close the facade shows what an unopened one shows: Active is
\* false, FieldCount and Position are 0, EOF and BOF are true.
C32_ClosedLooksUnopened ==
    last.op = "Close"
    => [active |-> Active, fields |-> FieldCount, position |-> Position,
        eof |-> EOF, bof |-> BOF] = Unopened

\* a table was open and positioned on a record when Close ran
C32_ClosedPositionedCursor == last.op = "Close" /\ last.arg > 0

\* C33: on an open table whose field is stored as NAME, FieldByName returns
\* that field for every spelling of the name that differs only in case, and
\* returns no field for any other name.
C33_FieldLookupIgnoresCase ==
    (last.op = "FieldByName" /\ Active)
    => IF ToLower(last.arg) = TrimRightNul(ToLower(FieldName))
       THEN FieldByName(impl, last.arg) = FieldName
       ELSE FieldByName(impl, last.arg) = Nil

\* C34: every data file that D4Open has opened has a header length of
\* 32 + 32 * field_count + 1.
C34_HeaderLenMatchesFieldCount ==
    (last.op = "D4Open" /\ last.res # Nil)
    => last.res.HeaderLen = 32 + 32 * last.res.NumFields + 1

\* C35: with several tables open in one environment, a rollback leaves every
\* data file that the transaction did not change as it is: the records on
\* disk and the record count of its cursor stay the same.
C35_RollbackLeavesOtherFiles ==
    [][last'.op = "Code4TransRollback"
       => \A d \in Cursors :
             disk[data[d].file] = begun[data[d].file]
             => /\ disk'[data[d].file] = disk[data[d].file]
                /\ data'[d].NumRecs = data[d].NumRecs]_vars

\* C36: a journaled write whose file write fails leaves the journal as it
\* was before the call.
C36_FailedWriteLeavesNoEntry ==
    [][(last'.op = "D4WriteTrans" /\ last'.rc # ErrorNone)
       => cb'.TransactionLog = cb.TransactionLog]_vars

\* the platform int x is greater, or less, than the small number n
IntAbove(x, n) == x.hi > 0 \/ (x.hi = 0 /\ x.lo > n)
IntBelow(x, n) == x.hi < 0 \/ (x.hi = 0 /\ x.lo < n)

\* C40: on an open table Goto(N) fails for every N above the record count,
\* Skip(K) ends After-last for every K above count - position and
\* Before-first for every K below 1 - position, whatever the size of the
\* platform int passed.
C40_TargetsNotTruncated ==
    [][impl.data # 0
       => LET count == data[impl.data].NumRecs
              position == data[impl.data].recNo
          IN  /\ (last'.op = "Goto" /\ IntAbove(last'.arg, count)) => last'.err
              /\ (last'.op = "Skip" /\ IntAbove(last'.arg, count - position))
                 => data'[impl.data].atEof
              /\ (last'.op = "Skip" /\ IntBelow(last'.arg, 1 - position))
                 => data'[impl.data].atBof]_vars


\* C37: the Indexes view refers to the currently open database: a Load after a
\* successful Open succeeds even when Indexes() came before the Open, and with
\* no database open, or another one opened since, Loaded() is false and the
\* view returns no index or tag of the database that was open before.
C37_ViewFollowsOpenDatabase ==
    impl.indexes # Nil =>
        /\ (last.op = "Load" /\ impl.data # 0) => ~last.err
        /\ impl.indexes.loaded => impl.data # 0
        /\ \A i \in 1..Len(impl.indexes.indexes) : impl.indexes.indexes[i].data = impl.data
        /\ \A i \in 1..Len(impl.indexes.tags) : impl.indexes.tags[i].data = impl.data

\* C38: with no lock held on the cursor's data file or on any of its index
\* files, D4LockAll succeeds, also when the production index is attached twice
\* (by auto-open and by an explicit load).
C38_LockAllSucceedsWhenUnlocked ==
    [][(/\ last'.op = "D4LockAll"
        /\ DOMAIN locks = {}
        /\ \A f \in DOMAIN oslock : oslock[f] = 0)
       => last'.rc = ErrorNone]_vars

====
